---------------------------- MODULE Spec2Model ----------------------------
(***************************************************************************)
(* A model of dns-transport/src/auto.rs: the automatic transport, which    *)
(* sends a DNS request with the UDP transport and, when the UDP response   *)
(* has the truncated flag set, sends it again with the TCP transport.      *)
(*                                                                         *)
(* One AutoTransport instance (its only field is addr) is shared by the    *)
(* callers in Callers.  Each caller runs AutoTransport::send one           *)
(* statement at a time; the locals of a running call (udp_transport,       *)
(* udp_response, tcp_transport, tcp_response) are per caller.  The two     *)
(* sub-transports are external: their send returns any Result.             *)
(***************************************************************************)
EXTENDS Naturals, Sequences, FiniteSets

\* ------------------------------------------------------------ bounds
\* Number of send calls started on the instance in one behaviour.
MaxCalls == 2

\* The threads that may call send on the shared instance.
Callers == {"c1", "c2"}

\* ------------------------------------------------------------ values
\* Arguments of AutoTransport::new: impl Into<String>, a &str or a String.
SaInputs == [kind : {"str", "String"}, text : {"8.8.8.8", "1.1.1.1"}]

\* sa.into(): the owned String with the text of the argument.
Into(sa) == sa.text

\* dns::Request values the callers pass in.
Requests == [transaction_id : {43981}, query : {"dns.lookup.dog NS", "dns.lookup.dog A"}]

\* dns::Response values: the flags.truncated bit and the rest of the message.
Responses == [flags : [truncated : BOOLEAN], answers : {"X", "Y"}]

\* super::Error values (a network error, a wire-format error).
Errors == {"NetworkError", "WireError"}

\* Result<Response, Error>.
Ok(r) == [tag |-> "Ok", response |-> r]
Err(e) == [tag |-> "Err", error |-> e]

\* What a sub-transport's send may return.
Outcomes == {Ok(r) : r \in Responses} \cup {Err(e) : e \in Errors}

\* A local that is not bound (not yet declared, moved out, or dropped).
None == [tag |-> "None"]

\* UdpTransport::new(&self.addr) and TcpTransport::new(&self.addr).
UdpTransport_new(a) == [kind |-> "udp", addr |-> a]
TcpTransport_new(a) == [kind |-> "tcp", addr |-> a]

\* The message of the debug! line.
DebugMessage == "Truncated flag set, so switching to TCP"

\* ------------------------------------------------------------ state
VARIABLES
    addr,           \* AutoTransport.addr
    pc,             \* per caller: the statement of send it is at
    request,        \* per caller: the request argument of its call
    udp_transport,  \* per caller: local of send
    udp_response,   \* per caller: local of send
    tcp_transport,  \* per caller: local of send
    tcp_response,   \* per caller: local of send
    result,         \* per caller: what its call returned
    events,         \* per caller: what its call did to the outside world
    ncalls,         \* send calls started so far
    history         \* summaries of the finished calls, in order of return

vars == <<addr, pc, request, udp_transport, udp_response, tcp_transport,
          tcp_response, result, events, ncalls, history>>

locals == <<udp_transport, udp_response, tcp_transport, tcp_response>>

\* ------------------------------------------------------------ events
NewEvent(t) == [ev |-> "new", transport |-> t]
SendEvent(t, q) == [ev |-> "send", transport |-> t, request |-> q]
RetEvent(t, o) == [ev |-> "ret", transport |-> t, outcome |-> o]
DebugEvent(m) == [ev |-> "debug", message |-> m]

IsEv(e, name) == e.ev = name

\* The events of one kind, in order.
EventsOf(es, name) == SelectSeq(es, LAMBDA e : IsEv(e, name))

\* The kinds of the transports of a sequence of events.
RECURSIVE Kinds(_)
Kinds(es) == IF es = <<>> THEN <<>> ELSE <<Head(es).transport.kind>> \o Kinds(Tail(es))

\* ------------------------------------------------------------ construction
\* new that opens the UDP transport ahead of the first send.
New_eager(sa) ==
    /\ addr = Into(sa)
    /\ pc = [c \in Callers |-> "idle"]
    /\ request = [c \in Callers |-> None]
    /\ udp_transport = [c \in Callers |-> UdpTransport_new(Into(sa))]
    /\ udp_response = [c \in Callers |-> None]
    /\ tcp_transport = [c \in Callers |-> None]
    /\ tcp_response = [c \in Callers |-> None]
    /\ result = [c \in Callers |-> None]
    /\ events = [c \in Callers |-> <<NewEvent(UdpTransport_new(Into(sa)))>>]
    /\ ncalls = 0
    /\ history = <<>>

\* AutoTransport::new(sa): stores the address, nothing else.
New(sa) ==
    /\ addr = Into(sa)
    /\ pc = [c \in Callers |-> "idle"]
    /\ request = [c \in Callers |-> None]
    /\ udp_transport = [c \in Callers |-> None]
    /\ udp_response = [c \in Callers |-> None]
    /\ tcp_transport = [c \in Callers |-> None]
    /\ tcp_response = [c \in Callers |-> None]
    /\ result = [c \in Callers |-> None]
    /\ events = [c \in Callers |-> <<>>]
    /\ ncalls = 0
    /\ history = <<>>

Init == \E sa \in SaInputs : New(sa)

\* ------------------------------------------------------------ send
\* The summary of a finished call kept in history.
Summary(c, res, es) ==
    [request |-> request[c],
     attempts |-> Kinds(EventsOf(es, "send")),
     outcomes |-> [i \in 1..Len(EventsOf(es, "ret")) |->
                     LET o == EventsOf(es, "ret")[i].outcome
                     IN  IF o.tag = "Err" THEN "Err"
                         ELSE IF o.response.flags.truncated THEN "OkTruncated"
                         ELSE "Ok"],
     result |-> res.tag]

\* The return that forgets to release the transports on the error paths.
Return_leak(c, res, es) ==
    /\ result' = [result EXCEPT ![c] = res]
    /\ pc' = [pc EXCEPT ![c] = "returned"]
    /\ udp_transport' = [udp_transport EXCEPT ![c] = IF res.tag = "Err" THEN @ ELSE None]
    /\ udp_response' = [udp_response EXCEPT ![c] = None]
    /\ tcp_transport' = [tcp_transport EXCEPT ![c] = IF res.tag = "Err" THEN @ ELSE None]
    /\ tcp_response' = [tcp_response EXCEPT ![c] = None]
    /\ events' = [events EXCEPT ![c] = es]
    /\ history' = Append(history, Summary(c, res, es))

\* The function returns res: the locals go out of scope and the caller has
\* the result.
Return(c, res, es) ==
    /\ result' = [result EXCEPT ![c] = res]
    /\ pc' = [pc EXCEPT ![c] = "returned"]
    /\ udp_transport' = [udp_transport EXCEPT ![c] = None]
    /\ udp_response' = [udp_response EXCEPT ![c] = None]
    /\ tcp_transport' = [tcp_transport EXCEPT ![c] = None]
    /\ tcp_response' = [tcp_response EXCEPT ![c] = None]
    /\ events' = [events EXCEPT ![c] = es]
    /\ history' = Append(history, Summary(c, res, es))

\* A caller calls transport.send(&request).
Call(c, q) ==
    /\ pc[c] \in {"idle", "returned"}
    /\ ncalls < MaxCalls
    /\ ncalls' = ncalls + 1
    /\ pc' = [pc EXCEPT ![c] = "udp_new"]
    /\ request' = [request EXCEPT ![c] = q]
    /\ result' = [result EXCEPT ![c] = None]
    /\ events' = [events EXCEPT ![c] = <<>>]
    /\ UNCHANGED <<addr, locals, history>>

\* The first line remembering the last truncation: when the call that
\* finished last fell back, go to TCP at once.
UdpNew_sticky(c) ==
    /\ pc[c] = "udp_new"
    /\ IF history # <<>> /\ Len(history[Len(history)].attempts) = 2
       THEN /\ pc' = [pc EXCEPT ![c] = "tcp_new"]
            /\ UNCHANGED <<udp_transport, events>>
       ELSE /\ udp_transport' = [udp_transport EXCEPT ![c] = UdpTransport_new(addr)]
            /\ events' = [events EXCEPT ![c] = Append(@, NewEvent(UdpTransport_new(addr)))]
            /\ pc' = [pc EXCEPT ![c] = "udp_send"]
    /\ UNCHANGED <<addr, request, udp_response, tcp_transport, tcp_response,
                   result, ncalls, history>>

\* The first line constructing both transports.
UdpNew_both(c) ==
    /\ pc[c] = "udp_new"
    /\ udp_transport' = [udp_transport EXCEPT ![c] = UdpTransport_new(addr)]
    /\ tcp_transport' = [tcp_transport EXCEPT ![c] = TcpTransport_new(addr)]
    /\ events' = [events EXCEPT ![c] = @ \o <<NewEvent(UdpTransport_new(addr)),
                                                NewEvent(TcpTransport_new(addr))>>]
    /\ pc' = [pc EXCEPT ![c] = "udp_send"]
    /\ UNCHANGED <<addr, request, udp_response, tcp_response,
                   result, ncalls, history>>

\* let udp_transport = UdpTransport::new(&self.addr);
UdpNew(c) ==
    /\ pc[c] = "udp_new"
    /\ udp_transport' = [udp_transport EXCEPT ![c] = UdpTransport_new(addr)]
    /\ events' = [events EXCEPT ![c] = Append(@, NewEvent(UdpTransport_new(addr)))]
    /\ pc' = [pc EXCEPT ![c] = "udp_send"]
    /\ UNCHANGED <<addr, request, udp_response, tcp_transport, tcp_response,
                   result, ncalls, history>>

\* udp_transport.send(&request): the call is made and blocks.
UdpSend(c) ==
    /\ pc[c] = "udp_send"
    /\ events' = [events EXCEPT ![c] = Append(@, SendEvent(udp_transport[c], request[c]))]
    /\ pc' = [pc EXCEPT ![c] = "udp_wait"]
    /\ UNCHANGED <<addr, request, locals, result, ncalls, history>>

\* A conversion that reports every error as a network error.
From_network(e) == "NetworkError"

\* The conversion the ? operator applies to the error it returns:
\* From<Error> for Error, which gives the error back.
From(e) == e

\* The UDP send's return with an error taken as the reason to try TCP.
UdpSendReturn_fallback(c, o) ==
    /\ pc[c] = "udp_wait"
    /\ LET es == Append(events[c], RetEvent(udp_transport[c], o))
       IN  /\ events' = [events EXCEPT ![c] = es]
           /\ IF o.tag = "Err"
              THEN /\ pc' = [pc EXCEPT ![c] = "debug"]
                   /\ UNCHANGED udp_response
              ELSE /\ udp_response' = [udp_response EXCEPT ![c] = o.response]
                   /\ pc' = [pc EXCEPT ![c] = "check"]
           /\ UNCHANGED <<addr, request, udp_transport, tcp_transport,
                          tcp_response, result, ncalls, history>>

\* The UDP send's return with udp_response kept in one place for the whole
\* instance instead of in a local of the call.
UdpSendReturn_shared(c, o) ==
    /\ pc[c] = "udp_wait"
    /\ LET es == Append(events[c], RetEvent(udp_transport[c], o))
       IN  IF o.tag = "Err"
           THEN /\ Return(c, Err(From(o.error)), es)
                /\ UNCHANGED <<addr, request, ncalls>>
           ELSE /\ udp_response' = [d \in Callers |->
                                      IF d = c \/ pc[d] \in {"check", "debug", "tcp_new",
                                                             "tcp_send", "tcp_wait", "tcp_ok"}
                                      THEN o.response ELSE udp_response[d]]
                /\ events' = [events EXCEPT ![c] = es]
                /\ pc' = [pc EXCEPT ![c] = "check"]
                /\ UNCHANGED <<addr, request, udp_transport, tcp_transport,
                               tcp_response, result, ncalls, history>>

\* let udp_response = udp_transport.send(&request)?;
\* the call comes back with o; the ? returns an Err from send.
UdpSendReturn(c, o) ==
    /\ pc[c] = "udp_wait"
    /\ LET es == Append(events[c], RetEvent(udp_transport[c], o))
       IN  IF o.tag = "Err"
           THEN /\ Return(c, Err(From(o.error)), es)
                /\ UNCHANGED <<addr, request, ncalls>>
           ELSE /\ udp_response' = [udp_response EXCEPT ![c] = o.response]
                /\ events' = [events EXCEPT ![c] = es]
                /\ pc' = [pc EXCEPT ![c] = "check"]
                /\ UNCHANGED <<addr, request, udp_transport, tcp_transport,
                               tcp_response, result, ncalls, history>>

\* Check with the test inverted: a complete response goes to TCP and a
\* truncated one is returned.
Check_inverted(c) ==
    /\ pc[c] = "check"
    /\ IF udp_response[c].flags.truncated
       THEN /\ Return(c, Ok(udp_response[c]), events[c])
            /\ UNCHANGED <<addr, request, ncalls>>
       ELSE /\ pc' = [pc EXCEPT ![c] = "debug"]
            /\ UNCHANGED <<addr, request, locals, result, events, ncalls, history>>

\* Check that constructs the TCP transport before it looks at the flag.
Check_eager(c) ==
    /\ pc[c] = "check"
    /\ IF ~ udp_response[c].flags.truncated
       THEN /\ Return(c, Ok(udp_response[c]),
                      Append(events[c], NewEvent(TcpTransport_new(addr))))
            /\ UNCHANGED <<addr, request, ncalls>>
       ELSE /\ pc' = [pc EXCEPT ![c] = "debug"]
            /\ UNCHANGED <<addr, request, locals, result, events, ncalls, history>>

\* Check reporting a truncated response as an error of its own.
Check_error(c) ==
    /\ pc[c] = "check"
    /\ IF ~ udp_response[c].flags.truncated
       THEN Return(c, Ok(udp_response[c]), events[c])
       ELSE Return(c, Err("WireError"), events[c])
    /\ UNCHANGED <<addr, request, ncalls>>

\* Check that also switches to TCP while the UDP send of another call on the
\* instance is under way.
Check_busy(c) ==
    /\ pc[c] = "check"
    /\ IF ~ udp_response[c].flags.truncated
          /\ ~ \E d \in Callers \ {c} : pc[d] = "udp_wait"
       THEN /\ Return(c, Ok(udp_response[c]), events[c])
            /\ UNCHANGED <<addr, request, ncalls>>
       ELSE /\ pc' = [pc EXCEPT ![c] = "debug"]
            /\ UNCHANGED <<addr, request, locals, result, events, ncalls, history>>

\* if ! udp_response.flags.truncated { return Ok(udp_response); }
Check(c) ==
    /\ pc[c] = "check"
    /\ IF ~ udp_response[c].flags.truncated
       THEN /\ Return(c, Ok(udp_response[c]), events[c])
            /\ UNCHANGED <<addr, request, ncalls>>
       ELSE /\ pc' = [pc EXCEPT ![c] = "debug"]
            /\ UNCHANGED <<addr, request, locals, result, events, ncalls, history>>

\* The fallback without its debug! line.
Debug_silent(c) ==
    /\ pc[c] = "debug"
    /\ pc' = [pc EXCEPT ![c] = "tcp_new"]
    /\ UNCHANGED <<addr, request, locals, result, events, ncalls, history>>

\* debug!("Truncated flag set, so switching to TCP");
Debug(c) ==
    /\ pc[c] = "debug"
    /\ events' = [events EXCEPT ![c] = Append(@, DebugEvent(DebugMessage))]
    /\ pc' = [pc EXCEPT ![c] = "tcp_new"]
    /\ UNCHANGED <<addr, request, locals, result, ncalls, history>>

\* The TCP transport constructed for a fixed server instead of self.addr.
TcpNew_default(c) ==
    /\ pc[c] = "tcp_new"
    /\ tcp_transport' = [tcp_transport EXCEPT ![c] = TcpTransport_new("8.8.8.8")]
    /\ events' = [events EXCEPT ![c] = Append(@, NewEvent(TcpTransport_new("8.8.8.8")))]
    /\ pc' = [pc EXCEPT ![c] = "tcp_send"]
    /\ UNCHANGED <<addr, request, udp_transport, udp_response, tcp_response,
                   result, ncalls, history>>

\* let tcp_transport = TcpTransport::new(&self.addr);
TcpNew(c) ==
    /\ pc[c] = "tcp_new"
    /\ tcp_transport' = [tcp_transport EXCEPT ![c] = TcpTransport_new(addr)]
    /\ events' = [events EXCEPT ![c] = Append(@, NewEvent(TcpTransport_new(addr)))]
    /\ pc' = [pc EXCEPT ![c] = "tcp_send"]
    /\ UNCHANGED <<addr, request, udp_transport, udp_response, tcp_response,
                   result, ncalls, history>>

\* tcp_transport.send(&request): the call is made and blocks.
TcpSend(c) ==
    /\ pc[c] = "tcp_send"
    /\ events' = [events EXCEPT ![c] = Append(@, SendEvent(tcp_transport[c], request[c]))]
    /\ pc' = [pc EXCEPT ![c] = "tcp_wait"]
    /\ UNCHANGED <<addr, request, locals, result, ncalls, history>>

\* The TCP send's return with a failure answered by the truncated UDP
\* response.
TcpSendReturn_partial(c, o) ==
    /\ pc[c] = "tcp_wait"
    /\ LET es == Append(events[c], RetEvent(tcp_transport[c], o))
       IN  IF o.tag = "Err"
           THEN /\ Return(c, Ok(udp_response[c]), es)
                /\ UNCHANGED <<addr, request, ncalls>>
           ELSE /\ tcp_response' = [tcp_response EXCEPT ![c] = o.response]
                /\ events' = [events EXCEPT ![c] = es]
                /\ pc' = [pc EXCEPT ![c] = "tcp_ok"]
                /\ UNCHANGED <<addr, request, udp_transport, udp_response,
                               tcp_transport, result, ncalls, history>>

\* The TCP send's return with a failure answered by starting over with UDP.
TcpSendReturn_retry(c, o) ==
    /\ pc[c] = "tcp_wait"
    /\ LET es == Append(events[c], RetEvent(tcp_transport[c], o))
       IN  /\ events' = [events EXCEPT ![c] = es]
           /\ IF o.tag = "Err"
              THEN /\ pc' = [pc EXCEPT ![c] = "udp_new"]
                   /\ UNCHANGED tcp_response
              ELSE /\ tcp_response' = [tcp_response EXCEPT ![c] = o.response]
                   /\ pc' = [pc EXCEPT ![c] = "tcp_ok"]
           /\ UNCHANGED <<addr, request, udp_transport, udp_response,
                          tcp_transport, result, ncalls, history>>

\* let tcp_response = tcp_transport.send(&request)?;
\* the call comes back with o; the ? returns an Err from send.
TcpSendReturn(c, o) ==
    /\ pc[c] = "tcp_wait"
    /\ LET es == Append(events[c], RetEvent(tcp_transport[c], o))
       IN  IF o.tag = "Err"
           THEN /\ Return(c, Err(From(o.error)), es)
                /\ UNCHANGED <<addr, request, ncalls>>
           ELSE /\ tcp_response' = [tcp_response EXCEPT ![c] = o.response]
                /\ events' = [events EXCEPT ![c] = es]
                /\ pc' = [pc EXCEPT ![c] = "tcp_ok"]
                /\ UNCHANGED <<addr, request, udp_transport, udp_response,
                               tcp_transport, result, ncalls, history>>

\* The last line returning the UDP response instead of the TCP one.
TcpOk_udp(c) ==
    /\ pc[c] = "tcp_ok"
    /\ Return(c, Ok(udp_response[c]), events[c])
    /\ UNCHANGED <<addr, request, ncalls>>

\* The last line sending again when the TCP response is truncated too.
TcpOk_again(c) ==
    /\ pc[c] = "tcp_ok"
    /\ IF tcp_response[c].flags.truncated
       THEN /\ pc' = [pc EXCEPT ![c] = "tcp_send"]
            /\ UNCHANGED <<addr, request, locals, result, events, ncalls, history>>
       ELSE /\ Return(c, Ok(tcp_response[c]), events[c])
            /\ UNCHANGED <<addr, request, ncalls>>

\* Ok(tcp_response)
TcpOk(c) ==
    /\ pc[c] = "tcp_ok"
    /\ Return(c, Ok(tcp_response[c]), events[c])
    /\ UNCHANGED <<addr, request, ncalls>>

Next ==
    \/ \E c \in Callers, q \in Requests : Call(c, q)
    \/ \E c \in Callers : UdpNew(c)
    \/ \E c \in Callers : UdpSend(c)
    \/ \E c \in Callers, o \in Outcomes : UdpSendReturn(c, o)
    \/ \E c \in Callers : Check(c)
    \/ \E c \in Callers : Debug(c)
    \/ \E c \in Callers : TcpNew(c)
    \/ \E c \in Callers : TcpSend(c)
    \/ \E c \in Callers, o \in Outcomes : TcpSendReturn(c, o)
    \/ \E c \in Callers : TcpOk(c)

Spec == Init /\ [][Next]_vars

\* The statements of a call that is under way: the thread that called send
\* runs them, and the sends of the sub-transports come back.
Run(c) ==
    \/ UdpNew(c)
    \/ UdpSend(c)
    \/ \E o \in Outcomes : UdpSendReturn(c, o)
    \/ Check(c)
    \/ Debug(c)
    \/ TcpNew(c)
    \/ TcpSend(c)
    \/ \E o \in Outcomes : TcpSendReturn(c, o)
    \/ TcpOk(c)

\* Spec with every call under way running on.
LiveSpec == Spec /\ \A c \in Callers : WF_vars(Run(c))

\* ------------------------------------------------------------ types
Transports == {UdpTransport_new(a) : a \in {sa.text : sa \in SaInputs}}
              \cup {TcpTransport_new(a) : a \in {sa.text : sa \in SaInputs}}

TypeOK ==
    /\ addr \in {Into(sa) : sa \in SaInputs}
    /\ pc \in [Callers -> {"idle", "udp_new", "udp_send", "udp_wait", "check", "debug",
                           "tcp_new", "tcp_send", "tcp_wait", "tcp_ok", "returned"}]
    /\ request \in [Callers -> Requests \cup {None}]
    /\ udp_transport \in [Callers -> Transports \cup {None}]
    /\ tcp_transport \in [Callers -> Transports \cup {None}]
    /\ udp_response \in [Callers -> Responses \cup {None}]
    /\ tcp_response \in [Callers -> Responses \cup {None}]
    /\ result \in [Callers -> Outcomes \cup {None}]
    /\ ncalls \in 0..MaxCalls
    /\ Len(history) <= ncalls

\* ------------------------------------------------------------ observations
\* What a call has done so far: the transports it constructed, the sends it
\* made on them and what came back.
News(c) == EventsOf(events[c], "new")
Sends(c) == EventsOf(events[c], "send")
Rets(c) == EventsOf(events[c], "ret")
Notes(c) == EventsOf(events[c], "debug")

Finished(c) == pc[c] = "returned"

\* What the n-th send of the call came back with (None if it has not).
Outcome(c, n) == LET rets == Rets(c) IN IF Len(rets) >= n THEN rets[n].outcome ELSE None

IsTruncated(o) == o.tag = "Ok" /\ o.response.flags.truncated
IsComplete(o) == o.tag = "Ok" /\ ~ o.response.flags.truncated

\* The Primary attempt of the call has come back with ...
PrimaryFailed(c) == Outcome(c, 1).tag = "Err"
PrimaryOk(c) == Outcome(c, 1).tag = "Ok"
PrimaryTruncated(c) == IsTruncated(Outcome(c, 1))
PrimaryComplete(c) == IsComplete(Outcome(c, 1))

\* The Secondary transport was constructed, or invoked, in the call.
SecondaryTouched(c) ==
    \/ tcp_transport[c] # None
    \/ \E i \in 1..Len(events[c]) :
           ~ IsEv(events[c][i], "debug") /\ events[c][i].transport.kind = "tcp"

\* ------------------------------------------------------------ C1
\* C1: in every call at most two sends are made on sub-transports, the first
\* on the UDP transport and the second on the TCP transport; a second send is
\* made only after the first came back Ok with flags.truncated set, and a
\* finished call has made a second send exactly when its first came back so.
C1_AtMostTwoAttempts ==
    \A c \in Callers :
        LET sends == Sends(c)
            o1 == Outcome(c, 1)
        IN  /\ Len(sends) <= 2
            /\ Len(sends) >= 1 => sends[1].transport.kind = "udp"
            /\ Len(sends) >= 2 => sends[2].transport.kind = "tcp" /\ IsTruncated(o1)
            /\ Finished(c) => (Len(sends) = 2 <=> IsTruncated(o1))

\* One caller has finished a call of two attempts, the other a call of one
\* attempt whose response was complete.
C1_Witness ==
    \E c, d \in Callers :
        /\ Finished(c) /\ Len(Sends(c)) = 2
        /\ Finished(d) /\ Len(Sends(d)) = 1 /\ PrimaryComplete(d)

\* ------------------------------------------------------------ C2
\* C2: when the UDP send comes back Ok with flags.truncated clear, the call
\* returns Ok with that very response, and the TCP transport is neither
\* constructed nor sent on in that call.
C2_FastPath ==
    \A c \in Callers :
        LET o1 == Outcome(c, 1)
        IN  IsComplete(o1) =>
                /\ ~ SecondaryTouched(c)
                /\ Finished(c) => result[c] = o1

\* A finished call whose UDP response was complete.
C2_Witness ==
    \E c \in Callers :
        /\ Finished(c) /\ PrimaryComplete(c)
        /\ result[c] = Ok([flags |-> [truncated |-> FALSE], answers |-> "X"])

\* ------------------------------------------------------------ C3
\* C3: when the UDP send comes back Ok with flags.truncated set, the finished
\* call has sent exactly once on a TCP transport, constructed for the stored
\* address, with the request it was given, and its result is what that send
\* came back with, a response or an error.
C3_Fallback ==
    \A c \in Callers :
        Finished(c) /\ PrimaryTruncated(c) =>
            LET sends == Sends(c)
                rets == Rets(c)
            IN  /\ Len(sends) = 2
                /\ sends[2].transport = TcpTransport_new(addr)
                /\ sends[2].request = request[c]
                /\ sends[1].request = request[c]
                /\ sends[2].transport.addr = sends[1].transport.addr
                /\ Len(rets) = 2
                /\ result[c] = rets[2].outcome

\* A finished call that fell back and got from TCP a response other than the
\* truncated UDP one.
C3_Witness ==
    \E c \in Callers :
        /\ Finished(c) /\ PrimaryTruncated(c)
        /\ result[c].tag = "Ok"
        /\ result[c] # Outcome(c, 1)

\* ------------------------------------------------------------ C4
\* C4: when the UDP send comes back with an error, whichever it is, the call
\* returns that error at once: it makes no other send and constructs no TCP
\* transport.
C4_PrimaryError ==
    \A c \in Callers :
        LET o1 == Outcome(c, 1)
        IN  o1.tag = "Err" =>
                /\ Finished(c)
                /\ result[c] = o1
                /\ Len(Sends(c)) = 1
                /\ Len(Rets(c)) = 1
                /\ ~ SecondaryTouched(c)

\* Two finished calls whose UDP sends failed with the two kinds of error.
C4_Witness ==
    \E c, d \in Callers :
        /\ PrimaryFailed(c) /\ result[c] = Err("NetworkError")
        /\ PrimaryFailed(d) /\ result[d] = Err("WireError")

\* ------------------------------------------------------------ C5
\* C5: when the UDP response is truncated and the TCP send then comes back
\* with an error, the call returns that error; it does not return Ok, with
\* the truncated UDP response or anything else.
C5_SecondaryError ==
    \A c \in Callers :
        LET o1 == Outcome(c, 1)
            o2 == Outcome(c, 2)
        IN  Finished(c) /\ IsTruncated(o1) /\ o2.tag = "Err" =>
                /\ result[c] = Err(o2.error)
                /\ result[c].tag # "Ok"
                /\ result[c] # o1

\* A finished call whose UDP response was truncated and whose TCP send failed.
C5_Witness ==
    \E c \in Callers :
        /\ Finished(c) /\ PrimaryTruncated(c)
        /\ Len(Rets(c)) = 2 /\ Outcome(c, 2).tag = "Err"
        /\ result[c].tag = "Err"

\* ------------------------------------------------------------ C6
\* C6: once the TCP send has come back Ok, no other send is made in the call,
\* on either transport, and the finished call returns Ok with the TCP
\* response, also when that response has flags.truncated set.
C6_NoEscalation ==
    \A c \in Callers :
        LET rets == Rets(c)
        IN  Len(rets) >= 2 /\ rets[2].outcome.tag = "Ok" =>
                /\ rets[2].transport.kind = "tcp"
                /\ Len(Sends(c)) = 2
                /\ Len(rets) = 2
                /\ pc[c] \in {"tcp_ok", "returned"}
                /\ Finished(c) => result[c] = rets[2].outcome

\* A finished call that returned a truncated response it got from TCP.
C6_Witness ==
    \E c \in Callers :
        /\ Finished(c) /\ Len(Rets(c)) = 2
        /\ IsTruncated(Outcome(c, 2))
        /\ result[c] = Outcome(c, 2)

\* ------------------------------------------------------------ C7
\* C7: every finished call on the instance, whatever the calls before it did,
\* made its own UDP send first, and made a TCP send exactly when its own UDP
\* send came back Ok and truncated; a call under way that is past its first
\* two statements has made its own UDP send.
C7_IndependentCalls ==
    /\ \A i \in 1..Len(history) :
          LET h == history[i]
          IN  /\ Len(h.attempts) >= 1
              /\ h.attempts[1] = "udp"
              /\ Len(h.outcomes) = Len(h.attempts)
              /\ Len(h.attempts) = 2 <=> h.outcomes[1] = "OkTruncated"
              /\ Len(h.attempts) = 2 => h.attempts[2] = "tcp"
    /\ \A c \in Callers :
          pc[c] \notin {"idle", "udp_new", "udp_send"} =>
              LET sends == Sends(c)
              IN  Len(sends) >= 1 /\ sends[1].transport.kind = "udp"

\* One caller made two calls with the same request, one after the other,
\* and nobody else called: the first fell back, the second did not.
C7_Witness ==
    /\ Len(history) = 2
    /\ \E c \in Callers : Finished(c) /\ \A d \in Callers \ {c} : pc[d] = "idle"
    /\ history[1].request = history[2].request
    /\ history[1].attempts = <<"udp", "tcp">>
    /\ history[2].attempts = <<"udp">>
    /\ history[2].outcomes = <<"Ok">>

\* ------------------------------------------------------------ C8
\* send run alone, as a function of what its sub-transports return: the
\* result and the transports sent on.  o2 is read only after a truncated o1.
SendAlone(o1, o2) ==
    IF o1.tag = "Err" THEN [result |-> Err(From(o1.error)), attempts |-> <<"udp">>]
    ELSE IF ~ o1.response.flags.truncated
         THEN [result |-> Ok(o1.response), attempts |-> <<"udp">>]
         ELSE IF o2.tag = "Err"
              THEN [result |-> Err(From(o2.error)), attempts |-> <<"udp", "tcp">>]
              ELSE [result |-> Ok(o2.response), attempts |-> <<"udp", "tcp">>]

\* C8: with calls interleaved in any way, the locals of each call hold what
\* its own sub-transports were constructed as and returned, every send of a
\* call is made with its own request on a transport it constructed, and each
\* finished call has the result and the attempts of send run alone on the
\* outcomes of its own sends.
C8_ConcurrentCalls ==
    \A c \in Callers :
        LET news == News(c)
            sends == Sends(c)
            rets == Rets(c)
        IN  /\ udp_transport[c] # None =>
                   Len(news) >= 1 /\ news[1].transport = udp_transport[c]
            /\ udp_response[c] # None =>
                   Len(rets) >= 1 /\ rets[1].outcome = Ok(udp_response[c])
            /\ tcp_transport[c] # None =>
                   Len(news) >= 2 /\ news[2].transport = tcp_transport[c]
            /\ tcp_response[c] # None =>
                   Len(rets) >= 2 /\ rets[2].outcome = Ok(tcp_response[c])
            /\ \A i \in 1..Len(sends) :
                   /\ sends[i].request = request[c]
                   /\ \E j \in 1..Len(news) : news[j].transport = sends[i].transport
            /\ Finished(c) =>
                   /\ Len(rets) >= 1
                   /\ LET o1 == rets[1].outcome
                          o2 == IF Len(rets) >= 2 THEN rets[2].outcome ELSE None
                          alone == SendAlone(o1, o2)
                      IN  /\ result[c] = alone.result
                          /\ Kinds(sends) = alone.attempts

\* Two calls are under way at once: one is waiting for TCP after a truncated
\* UDP response, the other is about to test a complete UDP response.
C8_Witness ==
    \E c, d \in Callers :
        /\ pc[c] = "tcp_wait" /\ udp_response[c].flags.truncated
        /\ pc[d] = "check" /\ ~ udp_response[d].flags.truncated
        /\ request[c] = request[d]

\* ------------------------------------------------------------ C9
\* The number of sends under way on transports of the kind in the events.
InFlight(es, kind) ==
    Len(SelectSeq(es, LAMBDA e : IsEv(e, "send") /\ e.transport.kind = kind))
        - Len(SelectSeq(es, LAMBDA e : IsEv(e, "ret") /\ e.transport.kind = kind))

\* C9: in a call, the TCP transport is constructed, and sent on, only after
\* the UDP send has come back, and at most one send is under way: the UDP
\* and the TCP send are never under way together.
C9_Sequential ==
    \A c \in Callers :
        LET es == events[c]
            udp == InFlight(es, "udp")
            tcp == InFlight(es, "tcp")
        IN  /\ \A j \in 1..Len(es) :
                   ~ IsEv(es[j], "debug") /\ es[j].transport.kind = "tcp" =>
                       \E i \in 1..(j - 1) :
                           IsEv(es[i], "ret") /\ es[i].transport.kind = "udp"
            /\ tcp_transport[c] # None => udp = 0 /\ Outcome(c, 1) # None
            /\ udp + tcp \in {0, 1}

\* The TCP send of a call is under way, after its UDP send came back.
C9_Witness ==
    \E c \in Callers :
        /\ InFlight(events[c], "tcp") = 1
        /\ Len(Rets(c)) = 1 /\ Rets(c)[1].transport.kind = "udp"

\* ------------------------------------------------------------ C10
\* C10: a call has no result until it returns, and then one result, Ok with
\* a response or Err with an error; an Err is what one of the sends of that
\* call came back with, and after a truncated UDP response it is what the
\* TCP send came back with.
C10_OneOutcome ==
    \A c \in Callers :
        /\ ~ Finished(c) => result[c] = None
        /\ Finished(c) =>
               LET rets == Rets(c)
               IN  /\ result[c] \in Outcomes
                   /\ result[c].tag = "Err" =>
                          \E i \in 1..Len(rets) : rets[i].outcome = result[c]
                   /\ result[c].tag = "Err" /\ PrimaryTruncated(c) =>
                          /\ Len(rets) = 2
                          /\ rets[2].transport.kind = "tcp"
                          /\ rets[2].outcome = result[c]

\* One call returned the error of its UDP send, another the error of its TCP
\* send.
C10_Witness ==
    \E c, d \in Callers :
        /\ Finished(c) /\ result[c].tag = "Err" /\ Len(Rets(c)) = 1
        /\ Finished(d) /\ result[d].tag = "Err" /\ Len(Rets(d)) = 2

\* ------------------------------------------------------------ C11
\* C11 as claimed: no sub-transport is held by a call that has returned, on
\* any exit path, and the UDP transport is no longer held while the TCP
\* attempt of the call is running.
C11_HeldForOwnAttemptOnly ==
    \A c \in Callers :
        /\ pc[c] \in {"idle", "returned"} =>
               udp_transport[c] = None /\ tcp_transport[c] = None
        /\ tcp_transport[c] # None \/ InFlight(events[c], "tcp") = 1 =>
               udp_transport[c] = None

\* C11 as amended: no sub-transport, and no response, is held by a call that
\* has returned, on any exit path; udp_transport is held from its
\* construction to the return of the call, and so while the TCP attempt is
\* running, and tcp_transport from its construction to the return.
C11_ReleasedOnReturn ==
    \A c \in Callers :
        /\ pc[c] \in {"idle", "returned"} =>
               /\ udp_transport[c] = None /\ tcp_transport[c] = None
               /\ udp_response[c] = None /\ tcp_response[c] = None
        /\ udp_transport[c] # None <=>
               pc[c] \in {"udp_send", "udp_wait", "check", "debug",
                          "tcp_new", "tcp_send", "tcp_wait", "tcp_ok"}
        /\ tcp_transport[c] # None <=> pc[c] \in {"tcp_send", "tcp_wait", "tcp_ok"}
        /\ InFlight(events[c], "tcp") = 1 =>
               udp_transport[c] = UdpTransport_new(addr)

\* One call has returned the error of its TCP send and holds nothing, while
\* the TCP send of another is under way with its UDP transport still held.
C11_Witness ==
    \E c, d \in Callers :
        /\ Finished(c) /\ result[c].tag = "Err" /\ Len(Rets(c)) = 2
        /\ udp_transport[c] = None /\ tcp_transport[c] = None
        /\ InFlight(events[d], "tcp") = 1 /\ udp_transport[d] # None

\* ------------------------------------------------------------ C12
\* The state of the per-call state machine a caller is in.
Phase(p, res) ==
    CASE p = "idle" -> "NoCall"
      [] p = "udp_new" -> "Start"
      [] p \in {"udp_send", "udp_wait", "check"} -> "PrimaryAttempt"
      [] p \in {"debug", "tcp_new"} -> "Fallback"
      [] p \in {"tcp_send", "tcp_wait", "tcp_ok"} -> "SecondaryAttempt"
      [] p = "returned" -> IF res.tag = "Ok" THEN "Done" ELSE "Failed"

\* The transitions of the state machine of a call.
Transitions ==
    {<<"Start", "PrimaryAttempt">>,
     <<"PrimaryAttempt", "Done">>, <<"PrimaryAttempt", "Failed">>,
     <<"PrimaryAttempt", "Fallback">>,
     <<"Fallback", "SecondaryAttempt">>,
     <<"SecondaryAttempt", "Done">>, <<"SecondaryAttempt", "Failed">>}

\* The place of a statement in the text of send.
Rank(p) ==
    CASE p = "idle" -> 0
      [] p = "udp_new" -> 1
      [] p = "udp_send" -> 2
      [] p = "udp_wait" -> 3
      [] p = "check" -> 4
      [] p = "debug" -> 5
      [] p = "tcp_new" -> 6
      [] p = "tcp_send" -> 7
      [] p = "tcp_wait" -> 8
      [] p = "tcp_ok" -> 9
      [] p = "returned" -> 10

\* A step keeps every call in its state or takes it along a transition of the
\* state machine, forward in the text of send; Done and Failed are left only
\* by the caller starting another call.
C12_Step ==
    \A c \in Callers :
        LET a == Phase(pc[c], result[c])
            b == Phase(pc'[c], result'[c])
        IN  \/ pc'[c] = pc[c] /\ a = b
            \/ /\ <<a, b>> \in Transitions \/ a = b
               /\ Rank(pc'[c]) > Rank(pc[c])
            \/ /\ a \in {"NoCall", "Done", "Failed"}
               /\ b = "Start"
               /\ ncalls' = ncalls + 1

\* C12: every call follows the transitions of the state machine only, never
\* going back in send, and, its sub-transports' sends coming back, every call
\* under way ends in Done or Failed.
C12_StateMachine ==
    /\ [][C12_Step]_vars
    /\ \A c \in Callers : (pc[c] \notin {"idle", "returned"}) ~> Finished(c)

\* A call in Done next to a call in Failed that went through Fallback.
C12_Witness ==
    \E c, d \in Callers :
        /\ Phase(pc[c], result[c]) = "Done" /\ Len(Sends(c)) = 1
        /\ Phase(pc[d], result[d]) = "Failed" /\ Len(Sends(d)) = 2

\* ------------------------------------------------------------ C13
\* Every transport of the call was constructed for the stored address and
\* every send of the call was made with the request of the call.
C13_Bound ==
    \A c \in Callers :
        /\ \A i \in 1..Len(events[c]) :
               LET e == events[c][i]
               IN  /\ ~ IsEv(e, "debug") => e.transport.addr = addr
                   /\ IsEv(e, "send") => e.request = request[c]
        /\ udp_transport[c] # None => udp_transport[c].addr = addr
        /\ tcp_transport[c] # None => tcp_transport[c].addr = addr

\* No step changes the stored address, and the request of a caller changes
\* only when the caller starts another call.
C13_Step ==
    /\ addr' = addr
    /\ \A c \in Callers :
           request'[c] # request[c] =>
               pc[c] \in {"idle", "returned"} /\ pc'[c] = "udp_new"

\* C13: the stored address never changes after construction, whatever the
\* calls do; both sub-transports of a call are constructed for it; the
\* request of a call is not changed during the call and is the request of
\* its UDP send and of its TCP send.
C13_Frame == []C13_Bound /\ [][C13_Step]_vars

\* A call on the instance for 1.1.1.1 that sent on both transports and
\* returned an error.
C13_Witness ==
    \E c \in Callers :
        /\ addr = "1.1.1.1"
        /\ Finished(c) /\ result[c].tag = "Err"
        /\ Len(Sends(c)) = 2
        /\ Sends(c)[1].request = Sends(c)[2].request

\* ------------------------------------------------------------ C14
\* C14: a call writes the debug note at most once; it writes it after its
\* UDP send came back Ok and truncated and before it constructs the TCP
\* transport, which it does not construct without the note; a finished call
\* has written it exactly when its UDP response was truncated, which is
\* exactly when it made a second attempt.
C14_FallbackNote ==
    \A c \in Callers :
        LET es == events[c]
            notes == Notes(c)
            o1 == Outcome(c, 1)
        IN  /\ Len(notes) <= 1
            /\ \A i \in 1..Len(es) :
                   IsEv(es[i], "debug") =>
                       /\ es[i].message = DebugMessage
                       /\ \E j \in 1..(i - 1) :
                              /\ IsEv(es[j], "ret")
                              /\ es[j].transport.kind = "udp"
                              /\ IsTruncated(es[j].outcome)
                       /\ \A j \in 1..(i - 1) :
                              IsEv(es[j], "debug") \/ es[j].transport.kind # "tcp"
            /\ \A i \in 1..Len(es) :
                   ~ IsEv(es[i], "debug") /\ es[i].transport.kind = "tcp" =>
                       \E j \in 1..(i - 1) : IsEv(es[j], "debug")
            /\ o1.tag = "Err" \/ IsComplete(o1) => Len(notes) = 0
            /\ Finished(c) =>
                   /\ Len(notes) = 1 <=> IsTruncated(o1)
                   /\ Len(notes) = 1 <=> Len(Sends(c)) = 2

\* A finished call that fell back and wrote the note, next to one that
\* returned the error of its UDP send and wrote none.
C14_Witness ==
    \E c, d \in Callers :
        /\ Finished(c) /\ Len(Sends(c)) = 2 /\ Len(Notes(c)) = 1
        /\ Finished(d) /\ PrimaryFailed(d) /\ Len(Notes(d)) = 0

\* ------------------------------------------------------------ C15
\* C15: as long as no send has been called on the constructed instance, it
\* holds the text of the address it was given and nothing else: no transport
\* has been constructed or sent on, no note written, no result produced; and
\* a caller that has not called send has done none of these.
C15_ConstructionOnly ==
    /\ ncalls = 0 =>
           /\ addr \in {sa.text : sa \in SaInputs}
           /\ history = <<>>
           /\ \A c \in Callers : pc[c] = "idle"
    /\ \A c \in Callers :
           pc[c] = "idle" =>
               /\ events[c] = <<>>
               /\ udp_transport[c] = None /\ tcp_transport[c] = None
               /\ udp_response[c] = None /\ tcp_response[c] = None
               /\ request[c] = None /\ result[c] = None

\* The instance of AutoTransport::new("8.8.8.8") before its first send.
C15_Witness ==
    /\ ncalls = 0
    /\ addr = "8.8.8.8"
    /\ \A c \in Callers : pc[c] = "idle" /\ events[c] = <<>>

\* ------------------------------------------------------------ C16
\* C16: a call that returns Ok with a response whose flags.truncated is set
\* has sent on the TCP transport, after a truncated UDP response, and
\* returns what the TCP send came back with; a call whose only send was the
\* UDP one does not return a truncated response.
C16_TruncatedIsSecondary ==
    \A c \in Callers :
        Finished(c) /\ IsTruncated(result[c]) =>
            LET sends == Sends(c)
                rets == Rets(c)
            IN  /\ Len(sends) = 2 /\ Len(rets) = 2
                /\ sends[2].transport.kind = "tcp"
                /\ rets[2].transport.kind = "tcp"
                /\ result[c] = rets[2].outcome
                /\ IsTruncated(rets[1].outcome)

\* A call returned a truncated response, the TCP one, which is not the
\* truncated response its UDP send came back with.
C16_Witness ==
    \E c \in Callers :
        /\ Finished(c) /\ IsTruncated(result[c])
        /\ result[c] = Outcome(c, 2)
        /\ result[c] # Outcome(c, 1)

\* ------------------------------------------------------------ C17
\* C17: two finished calls on the instance with the same request, whose UDP
\* sends came back with the same outcome and, when that outcome is a
\* truncated response, whose TCP sends came back with the same outcome, did
\* the same things in the same order and returned the same result; what a
\* TCP send would come back with plays no part otherwise.
C17_Deterministic ==
    \A c, d \in Callers :
        LET c1 == Outcome(c, 1)
            d1 == Outcome(d, 1)
        IN  /\ Finished(c) /\ Finished(d)
            /\ request[c] = request[d]
            /\ c1 = d1
            /\ IsTruncated(c1) => Outcome(c, 2) = Outcome(d, 2)
            => /\ result[c] = result[d]
               /\ events[c] = events[d]

\* Two callers have finished calls with the same request and the same
\* outcomes of both sends.
C17_Witness ==
    \E c \in Callers : \E d \in Callers \ {c} :
        /\ Finished(c) /\ Finished(d)
        /\ request[c] = request[d]
        /\ PrimaryTruncated(c) /\ Outcome(c, 1) = Outcome(d, 1)
        /\ Outcome(c, 2) = Outcome(d, 2)
        /\ result[c] = result[d]

\* ------------------------------------------------------------ C18
\* No UDP send on the instance has come back with a truncated response so far.
PrimaryNeverTruncated ==
    /\ \A i \in 1..Len(history) : history[i].outcomes[1] # "OkTruncated"
    /\ \A c \in Callers : ~ PrimaryTruncated(c)

\* C18: as long as no UDP send has come back truncated, the instance has
\* behaved as the UDP transport alone: every finished call made one send, on
\* a UDP transport for the stored address with the request of the call, and
\* returned what that send came back with, the response or the error; no
\* call has touched the TCP transport.
C18_PrimaryAlone ==
    PrimaryNeverTruncated =>
        /\ \A i \in 1..Len(history) :
               /\ history[i].attempts = <<"udp">>
               /\ history[i].result = IF history[i].outcomes[1] = "Err" THEN "Err" ELSE "Ok"
        /\ \A c \in Callers :
               /\ ~ SecondaryTouched(c)
               /\ Finished(c) =>
                      /\ Sends(c) = <<SendEvent(UdpTransport_new(addr), request[c])>>
                      /\ Len(Rets(c)) = 1
                      /\ result[c] = Outcome(c, 1)

\* Two calls have finished, one with a complete response and one with a wire
\* error, and no UDP send has come back truncated.
C18_Witness ==
    /\ PrimaryNeverTruncated
    /\ Len(history) = 2
    /\ \E c, d \in Callers :
           /\ Finished(c) /\ result[c] = Err("WireError")
           /\ Finished(d) /\ result[d].tag = "Ok"

=============================================================================
